---- MODULE Spec2Model ----
(***************************************************************************)
(* A model of the DSPy proxy server (src/main.py): the two in-memory       *)
(* stores, the process-wide language-model setting, and the four request   *)
(* handlers configure_lm, register_signature, predict and optimize, plus   *)
(* the router's answer to a path that has no handler.                      *)
(*                                                                         *)
(* Spec  : requests are handled one after the other (each handler is one   *)
(*         action).                                                        *)
(* SpecC : optimize requests are handled by worker threads whose           *)
(*         statements interleave (the handlers are plain `def`s, which the *)
(*         framework runs in a thread pool).                               *)
(***************************************************************************)
EXTENDS Integers, Sequences, FiniteSets, TLC

VARIABLES
    signatures,        \* main.py:17  dict name -> Signature
    compiled_modules,  \* main.py:18  dict module_id -> compiled program
    lm,                \* dspy.settings.lm, set by configure_lm (main.py:52,81)
    last,              \* the last request handled and the response it got
    returned,          \* history: what every successful optimize returned
    pc,                \* SpecC: where each worker thread is in optimize
    loc                \* SpecC: each worker thread's local variables

vars == <<signatures, compiled_modules, lm, last, returned, pc, loc>>

-----------------------------------------------------------------------------
(* Bounds of the model *)

MaxModules == 2   \* optimize requests answered with success, per run

(* Inputs the requests are drawn from *)

Names == {"qa", "qa_opt_0"}
BackendAnswers == {"42", "Paris"}
ModuleTypes == {"Predict", "ChainOfThought", "ReAct"}
Metrics == {"exact_match", "f1"}
Optimizers == {"BootstrapFewShot", "MIPRO"}
MaxBootstrapsChoices == {0, 1, 2}

\* train_data: the "answer" value of each example (every example also
\* carries a "question").
TrainSets == { <<>>, <<"paris", "Paris">> }
Providers == {"dummy", "openai"}
Threads == {1, 2}

\* A signature string, as its tokens ("question -> answer").
SigStrings ==
    { <<"question", "->", "answer">>,
      <<"question", "->", "label">>,
      <<"question", "answer">>,
      <<"question", "question", "->", "answer">> }

\* req.compiled_module_id: None and "" are both falsy at main.py:110.
NoId == ""
ModuleIdChoices == {NoId, "qa_opt_0", "qa_opt_1", "qa_opt_0_opt_1", "zz_opt_9"}

-----------------------------------------------------------------------------
(* Helpers *)

Min(a, b) == IF a < b THEN a ELSE b
Max(a, b) == IF a > b THEN a ELSE b

Range(s) == { s[i] : i \in DOMAIN s }

\* dict[key] = value
Put(d, k, v) == [x \in DOMAIN d \cup {k} |-> IF x = k THEN v ELSE d[x]]

EmptyDict == [x \in {} |-> x]

-----------------------------------------------------------------------------
(* Signatures (main.py:91) *)

ArrowPositions(toks) == { i \in DOMAIN toks : toks[i] = "->" }

\* dspy.make_signature raises unless the string holds exactly one "->".
SignatureParses(toks) == Cardinality(ArrowPositions(toks)) = 1

\* The field names of a list, each once, in the order first written.
RECURSIVE Dedupe(_)
Dedupe(s) ==
    IF s = <<>> THEN <<>>
    ELSE LET front == Dedupe(SubSeq(s, 1, Len(s) - 1))
             x == s[Len(s)]
         IN  IF x \in Range(front) THEN front ELSE Append(front, x)

\* Whether the string writes a field name twice.
HasDuplicate(toks) ==
    \E i, j \in DOMAIN toks : i # j /\ toks[i] = toks[j] /\ toks[i] # "->"

\* Whether dspy.make_signature raises (main.py:91): it does on a string that
\* does not parse; what it does with a field name written twice is left open
\* (it raises, or keeps the name once).
MakeSignatureRaises(toks) ==
    IF ~SignatureParses(toks) THEN {TRUE}
    ELSE IF HasDuplicate(toks) THEN {TRUE, FALSE}
    ELSE {FALSE}

\* The Signature built from a string that parses: its input fields, then its
\* output fields, in the order written; a name is a field once, and an output
\* field if it is written after the arrow.
make_signature(toks) ==
    LET a == CHOOSE i \in ArrowPositions(toks) : TRUE
        outs == Dedupe(SubSeq(toks, a + 1, Len(toks)))
        IsInput(x) == x \notin Range(outs)
    IN  [ins |-> Dedupe(SelectSeq(SubSeq(toks, 1, a - 1), IsInput)),
         outs |-> outs]

\* sig.fields: inputs first, then outputs.
Fields(sig) == sig.ins \o sig.outs

\* main.py:152
input_keys(sig) == sig.ins

\* main.py:162
output_keys(sig) == sig.outs

-----------------------------------------------------------------------------
(* The language model behind dspy.settings.lm *)

NoLM == "none"

\* What one call of a module bound to `sig` can come to under language model
\* `m`: an exception, or a Prediction giving each output field a value.
\*   - no language model configured: the call raises before any request;
\*   - the dummy of main.py:51 always replies answer "42"; what the framework
\*     makes of that reply for a signature with other output fields is left
\*     open (it raises, or yields a prediction);
\*   - a provider's model replies anything, or the request fails.
Raised(msg) == [ok |-> FALSE, pred |-> EmptyDict, detail |-> msg]
Predicted(p) == [ok |-> TRUE, pred |-> p, detail |-> ""]

BackendOutcomes(m, sig) ==
    LET outs == Range(sig.outs) IN
    IF m = NoLM THEN { Raised("No LM is loaded.") }
    ELSE IF m = "dummy" THEN
        IF outs = {"answer"} THEN { Predicted([f \in outs |-> "42"]) }
        ELSE { Raised("parse error"), Predicted([f \in outs |-> "42"]) }
    ELSE { Raised("provider error") }
         \cup { Predicted(p) : p \in [outs -> BackendAnswers] }

\* Whether a call under language model m reaches the backend at all.
CallsBackend(m) == IF m = NoLM THEN 0 ELSE 1

-----------------------------------------------------------------------------
(* Metrics (main.py:156-165) *)

\* dspy's answer normalisation, as far as the model's values go: lower case.
Normalize(v) == IF v = "Paris" THEN "paris" ELSE v

\* main.py:154: a train_data entry {"question": ..., "answer": v} as an Example.
Example(v) == [question |-> "q", answer |-> v]

\* main.py:158-159: answer_exact_match compares example.answer with
\* pred.answer, normalised; a missing attribute raises.
ExactMatchMetric(sig, example, pred) ==
    IF "answer" \notin DOMAIN example \/ "answer" \notin DOMAIN pred THEN "raise"
    ELSE IF Normalize(example["answer"]) = Normalize(pred["answer"])
         THEN "pass" ELSE "fail"

\* main.py:162-165: equality on the signature's last output field.
DefaultMetric(sig, example, pred) ==
    LET output_field == output_keys(sig)[Len(output_keys(sig))]
    IN  IF output_field \notin DOMAIN example \/ output_field \notin DOMAIN pred
        THEN "raise"
        ELSE IF example[output_field] = pred[output_field] THEN "pass" ELSE "fail"

\* (mutant) every metric name selects exact_match.
metric_fn_exact_only(metric, sig, example, pred) ==
    ExactMatchMetric(sig, example, pred)

\* main.py:157-165: the metric a request's metric name selects.
metric_fn(metric, sig, example, pred) ==
    IF metric = "exact_match" THEN ExactMatchMetric(sig, example, pred)
    ELSE DefaultMetric(sig, example, pred)

-----------------------------------------------------------------------------
(* dspy.BootstrapFewShot(metric, max_bootstrapped_demos).compile(student,    *)
(* trainset), as called at main.py:170-177                                  *)

\* The optimizer's defaults, which main.py:170 leaves as they are.
MaxLabeledDemos == 16
MaxErrors == 5

\* The bootstrap loop over the training set, in order: it stops once
\* max_bootstraps examples are bootstrapped; the teacher runs on the example
\* and the metric scores its prediction; an exception in either is counted
\* and passed over until MaxErrors of them, then raised.
\* outs[i] is what the teacher's call on example i comes to.
RECURSIVE Bootstrap(_, _, _, _, _, _, _, _, _)
Bootstrap(sig, metric, maxb, train, outs, i, boot, errs, attempts) ==
    IF i > Len(train) \/ boot >= maxb
    THEN [raised |-> FALSE, boot |-> boot, attempts |-> attempts, detail |-> ""]
    ELSE LET o == outs[i]
             verdict == IF o.ok THEN metric_fn(metric, sig, Example(train[i]), o.pred)
                        ELSE "raise"
         IN  IF verdict = "raise"
             THEN IF errs + 1 >= MaxErrors
                  THEN [raised |-> TRUE, boot |-> boot, attempts |-> attempts + 1,
                        detail |-> IF o.ok THEN "AttributeError" ELSE o.detail]
                  ELSE Bootstrap(sig, metric, maxb, train, outs, i + 1, boot,
                                 errs + 1, attempts + 1)
             ELSE Bootstrap(sig, metric, maxb, train, outs, i + 1,
                            IF verdict = "pass" THEN boot + 1 ELSE boot,
                            errs, attempts + 1)

\* The compiled program's demonstrations: the bootstrapped ones, capped at
\* max_bootstrapped_demos, then labeled examples taken from the rest of the
\* training set up to MaxLabeledDemos in all.
LabeledDemos(maxb, ntrain, boot) ==
    Max(0, Min(MaxLabeledDemos - Min(boot, maxb), ntrain - boot))

compile(sig, metric, maxb, train, outs) ==
    LET b == Bootstrap(sig, metric, maxb, train, outs, 1, 0, 0, 0)
    IN  [raised |-> b.raised, detail |-> b.detail, attempts |-> b.attempts,
         boot |-> Min(b.boot, maxb),
         labeled |-> LabeledDemos(maxb, Len(train), b.boot)]

-----------------------------------------------------------------------------
(* Requests and responses *)

ConfigureRequests ==
    [provider : Providers, has_api_key : BOOLEAN]

RegisterRequests ==
    [name : Names, signature : SigStrings]

PredictRequests ==
    [signature_name : Names, module_type : ModuleTypes,
     compiled_module_id : ModuleIdChoices]

OptimizeRequests ==
    [signature_name : Names, train_data : TrainSets, metric : Metrics,
     optimizer : Optimizers, max_bootstraps : MaxBootstrapsChoices]

EvaluateRequests ==
    [signature_name : Names, compiled_module_id : ModuleIdChoices \ {NoId},
     metric : Metrics, test_data : TrainSets]

\* A response: the HTTP status, the detail of an error, and the body's parts.
\* calls counts the calls the handler made to the language-model backend.
Response(status, detail) ==
    [status |-> status, detail |-> detail, calls |-> 0, output |-> EmptyDict,
     module_id |-> "", boot |-> 0, labeled |-> 0]

\* str(e) of an HTTPException raised inside a handler's try block.
HttpExcStr(status, detail) == ToString(status) \o ": " \o detail

\* main.py:138-141 and 185-188: `except Exception` catches whatever the try
\* block raised and answers 500 with str(e) as the detail.
ExceptionResponse(detail) == Response(500, detail)

\* The same handler catching the HTTPException that the try block itself
\* raised (main.py:112, 121, 172): HTTPException is an Exception.
Caught(raisedStatus, detail) ==
    ExceptionResponse(HttpExcStr(raisedStatus, detail))

\* The stores and the setting as a handler finds them.
Snapshot ==
    [signatures |-> signatures, compiled_modules |-> compiled_modules, lm |-> lm]

Idle ==
    [op |-> "idle", req |-> EmptyDict, outs |-> <<>>, resp |-> Response(0, ""),
     pre |-> [signatures |-> EmptyDict, compiled_modules |-> EmptyDict,
              lm |-> "none"]]

\* outs: what the language-model calls made for the request came to.
Handled(op, req, outs, resp) ==
    [op |-> op, req |-> req, outs |-> outs, resp |-> resp, pre |-> Snapshot]

-----------------------------------------------------------------------------
(* configure_lm, main.py:45-85 *)

\* (mutant) a configure that fails leaves no language model configured.
configure_lm_clears_on_failure(req, envKey, ctorRaises) ==
    IF req.provider = "dummy"
    THEN IF ctorRaises
         THEN [resp |-> Response(500, "Internal Server Error"), lm |-> NoLM]
         ELSE [resp |-> Response(200, ""), lm |-> "dummy"]
    ELSE IF ~req.has_api_key /\ ~envKey
    THEN [resp |-> Response(400, "API key required"), lm |-> NoLM]
    ELSE IF ctorRaises
    THEN [resp |-> Response(500, "Failed to configure LM"), lm |-> NoLM]
    ELSE [resp |-> Response(200, ""), lm |-> req.provider]

\* The language model dspy.settings holds after the request; envKey says
\* whether the provider's API key is in the environment, ctorRaises whether
\* constructing the language model or handing it to dspy.settings raises.
\* For the dummy those calls (main.py:51-52) stand outside any try: an
\* exception there is the framework's 500.
configure_lm(req, envKey, ctorRaises) ==
    IF req.provider = "dummy"
    THEN IF ctorRaises
         THEN [resp |-> Response(500, "Internal Server Error"), lm |-> lm]
         ELSE [resp |-> Response(200, ""), lm |-> "dummy"]
    ELSE IF ~req.has_api_key /\ ~envKey
    THEN [resp |-> Response(400, "API key required"), lm |-> lm]
    ELSE IF ctorRaises
    THEN [resp |-> Response(500, "Failed to configure LM"), lm |-> lm]
    ELSE [resp |-> Response(200, ""), lm |-> req.provider]

-----------------------------------------------------------------------------
(* register_signature, main.py:87-99 *)

\* (mutant) a name already registered keeps its first signature.
register_signature_keeps_first(req, raises) ==
    IF ~raises
    THEN [resp |-> Response(200, ""),
          signatures |-> IF req.name \in DOMAIN signatures THEN signatures
                         ELSE Put(signatures, req.name,
                                  make_signature(req.signature))]
    ELSE [resp |-> Response(400, "Invalid signature format"),
          signatures |-> signatures]

\* (mutant) a registration that fails takes the name's entry with it.
register_signature_drops_on_failure(req, raises) ==
    IF ~raises
    THEN [resp |-> Response(200, ""),
          signatures |-> Put(signatures, req.name, make_signature(req.signature))]
    ELSE [resp |-> Response(400, "Invalid signature format"),
          signatures |-> [n \in DOMAIN signatures \ {req.name} |-> signatures[n]]]

\* raises: whether make_signature raises on req.signature.
register_signature(req, raises) ==
    IF ~raises
    THEN [resp |-> Response(200, ""),
          signatures |-> Put(signatures, req.name, make_signature(req.signature))]
    ELSE [resp |-> Response(400, "Invalid signature format"),
          signatures |-> signatures]

-----------------------------------------------------------------------------
(* predict, main.py:101-141 *)

\* dspy.Predict(sig) / dspy.ChainOfThought(sig): a module with no
\* demonstrations; a compiled program is a ChainOfThought with some.
Module(sig, cot, demos) == [sig |-> sig, cot |-> cot, demos |-> demos]

\* (mutant) module_type is validated whether or not a compiled id is given.
SelectModuleValidatesType(req) ==
    LET sig == signatures[req.signature_name] IN
    IF req.module_type \notin {"Predict", "ChainOfThought"}
    THEN [ok |-> FALSE, status |-> 400,
          detail |-> "Unknown module type: " \o req.module_type,
          module |-> Module(sig, FALSE, 0)]
    ELSE IF req.compiled_module_id # NoId
    THEN IF req.compiled_module_id \notin DOMAIN compiled_modules
         THEN [ok |-> FALSE, status |-> 404, detail |-> "Compiled module not found",
               module |-> Module(sig, FALSE, 0)]
         ELSE [ok |-> TRUE, status |-> 200, detail |-> "",
               module |-> compiled_modules[req.compiled_module_id]]
    ELSE [ok |-> TRUE, status |-> 200, detail |-> "",
          module |-> Module(sig, req.module_type = "ChainOfThought", 0)]

\* main.py:110-121: the module the request selects, or what is raised.
SelectModule(req) ==
    LET sig == signatures[req.signature_name] IN
    IF req.compiled_module_id # NoId
    THEN IF req.compiled_module_id \notin DOMAIN compiled_modules
         THEN [ok |-> FALSE, status |-> 404, detail |-> "Compiled module not found",
               module |-> Module(sig, FALSE, 0)]
         ELSE [ok |-> TRUE, status |-> 200, detail |-> "",
               module |-> compiled_modules[req.compiled_module_id]]
    ELSE IF req.module_type = "Predict"
    THEN [ok |-> TRUE, status |-> 200, detail |-> "", module |-> Module(sig, FALSE, 0)]
    ELSE IF req.module_type = "ChainOfThought"
    THEN [ok |-> TRUE, status |-> 200, detail |-> "", module |-> Module(sig, TRUE, 0)]
    ELSE [ok |-> FALSE, status |-> 400,
          detail |-> "Unknown module type: " \o req.module_type,
          module |-> Module(sig, FALSE, 0)]

\* The Prediction's attributes: the module's output fields, and the
\* reasoning of a ChainOfThought (main.py:49-51).
Result(module, pred) ==
    IF module.cot
    THEN [k \in DOMAIN pred \cup {"reasoning"} |->
            IF k \in DOMAIN pred THEN pred[k] ELSE "because"]
    ELSE pred

\* main.py:126-134: the request's signature decides which attributes are kept.
Output(sig, result) ==
    [k \in { f \in Range(Fields(sig)) \cup {"rationale"} : f \in DOMAIN result }
        |-> result[k]]

\* What the module's call can come to; nothing is called when none is selected.
PredictOutcomes(req) ==
    IF req.signature_name \notin DOMAIN signatures \/ ~SelectModule(req).ok
    THEN { Raised("") }
    ELSE BackendOutcomes(lm, SelectModule(req).module.sig)

\* (mutant) a compiled module is looked up before the signature is.
predict_compiled_first(req, o) ==
    IF req.compiled_module_id \in DOMAIN compiled_modules
    THEN IF ~o.ok
         THEN [ExceptionResponse(o.detail) EXCEPT !.calls = CallsBackend(lm)]
         ELSE [Response(200, "") EXCEPT
                 !.calls = CallsBackend(lm),
                 !.output = Result(compiled_modules[req.compiled_module_id], o.pred)]
    ELSE IF req.signature_name \notin DOMAIN signatures
    THEN Response(404, "Signature not found")
    ELSE LET sel == SelectModule(req) IN
         IF ~sel.ok THEN Caught(sel.status, sel.detail)
         ELSE IF ~o.ok
         THEN [ExceptionResponse(o.detail) EXCEPT !.calls = CallsBackend(lm)]
         ELSE [Response(200, "") EXCEPT
                 !.calls = CallsBackend(lm),
                 !.output = Output(signatures[req.signature_name],
                                   Result(sel.module, o.pred))]

predict(req, o) ==
    IF req.signature_name \notin DOMAIN signatures
    THEN Response(404, "Signature not found")
    ELSE LET sel == SelectModule(req) IN
         IF ~sel.ok THEN Caught(sel.status, sel.detail)
         ELSE IF ~o.ok
         THEN [ExceptionResponse(o.detail) EXCEPT !.calls = CallsBackend(lm)]
         ELSE [Response(200, "") EXCEPT
                 !.calls = CallsBackend(lm),
                 !.output = Output(signatures[req.signature_name],
                                   Result(sel.module, o.pred))]

-----------------------------------------------------------------------------
(* optimize, main.py:143-188 *)

\* (mutant) the id leaves the store's size out.
ModuleIdNoCount(signature_name, n) == signature_name \o "_opt_" \o ToString(0)

\* main.py:180
ModuleId(signature_name, n) == signature_name \o "_opt_" \o ToString(n)

\* What the teacher's calls can come to, one per training example; nothing
\* is compiled when the request is turned down first.
OptimizeOutcomes(req) ==
    IF req.signature_name \notin DOMAIN signatures
       \/ req.optimizer # "BootstrapFewShot"
    THEN { <<>> }
    ELSE [1..Len(req.train_data) ->
            BackendOutcomes(lm, signatures[req.signature_name])]

\* main.py:145-177: up to the compiled program, or the response that ends
\* the request before there is one.
Compiled(req, outs) ==
    IF req.signature_name \notin DOMAIN signatures
    THEN [ok |-> FALSE, resp |-> Response(404, "Signature not found"),
          program |-> EmptyDict]
    ELSE LET sig == signatures[req.signature_name] IN
         IF req.metric # "exact_match" /\ Len(output_keys(sig)) = 0
         THEN [ok |-> FALSE, resp |-> Response(500, "Internal Server Error"),
               program |-> EmptyDict]
         ELSE IF req.optimizer # "BootstrapFewShot"
         THEN [ok |-> FALSE,
               resp |-> Caught(400, "Only BootstrapFewShot supported for now"),
               program |-> EmptyDict]
         ELSE LET c == compile(sig, req.metric, req.max_bootstraps,
                               req.train_data, outs)
                  calls == c.attempts * CallsBackend(lm)
              IN  IF c.raised
                  THEN [ok |-> FALSE,
                        resp |-> [ExceptionResponse(c.detail) EXCEPT !.calls = calls],
                        program |-> EmptyDict]
                  ELSE [ok |-> TRUE,
                        resp |-> [Response(200, "") EXCEPT
                                    !.calls = calls, !.boot = c.boot,
                                    !.labeled = c.labeled],
                        program |-> Module(sig, TRUE, c.boot + c.labeled)]

\* (mutant) the store entry is written before the request is known to succeed.
optimize_stores_first(req, outs) ==
    LET c == Compiled(req, outs)
        module_id == ModuleId(req.signature_name,
                              Cardinality(DOMAIN compiled_modules))
    IN  [resp |-> IF c.ok THEN [c.resp EXCEPT !.module_id = module_id] ELSE c.resp,
         compiled_modules |-> Put(compiled_modules, module_id, c.program)]

\* main.py:179-183: the response, and the store after the request.
optimize(req, outs) ==
    LET c == Compiled(req, outs) IN
    IF ~c.ok
    THEN [resp |-> c.resp, compiled_modules |-> compiled_modules]
    ELSE LET module_id == ModuleId(req.signature_name,
                                   Cardinality(DOMAIN compiled_modules))
         IN  [resp |-> [c.resp EXCEPT !.module_id = module_id],
              compiled_modules |-> Put(compiled_modules, module_id, c.program)]

-----------------------------------------------------------------------------
(* The router: the paths that have a handler (main.py:45, 87, 101, 143) *)

Routes == {"/configure", "/register", "/predict", "/optimize"}

route(path) ==
    IF path \in Routes THEN Response(200, "") ELSE Response(404, "Not Found")

-----------------------------------------------------------------------------
(* The server handling one request after the other *)

ThreadIdle == [name |-> "", resp |-> Response(0, ""), program |-> EmptyDict]

Init ==
    /\ signatures = EmptyDict
    /\ compiled_modules = EmptyDict
    /\ lm = NoLM
    /\ last = Idle
    /\ returned = <<>>
    /\ pc = [t \in Threads |-> "idle"]
    /\ loc = [t \in Threads |-> ThreadIdle]

Configure ==
    \E req \in ConfigureRequests, envKey \in BOOLEAN, ctorRaises \in BOOLEAN :
        LET r == configure_lm(req, envKey, ctorRaises) IN
        /\ last.op = "idle"
        /\ lm' = r.lm
        /\ last' = Handled("configure", req, <<>>, r.resp)
        /\ UNCHANGED <<signatures, compiled_modules, returned, pc, loc>>

Register ==
    \E req \in RegisterRequests, raises \in BOOLEAN :
        LET r == register_signature(req, raises) IN
        /\ last.op = "idle"
        /\ raises \in MakeSignatureRaises(req.signature)
        /\ signatures' = r.signatures
        /\ last' = Handled("register", req, <<>>, r.resp)
        /\ UNCHANGED <<compiled_modules, lm, returned, pc, loc>>

Predict ==
    \E req \in PredictRequests :
        \E o \in PredictOutcomes(req) :
            /\ last.op = "idle"
            /\ last' = Handled("predict", req, <<o>>, predict(req, o))
            /\ UNCHANGED <<signatures, compiled_modules, lm, returned, pc, loc>>

Optimize ==
    \E req \in OptimizeRequests :
        \E outs \in OptimizeOutcomes(req) :
            LET r == optimize(req, outs) IN
            /\ last.op = "idle"
            /\ Len(returned) < MaxModules
            /\ compiled_modules' = r.compiled_modules
            /\ last' = Handled("optimize", req, outs, r.resp)
            /\ returned' = IF r.resp.status = 200
                           THEN Append(returned, r.resp.module_id)
                           ELSE returned
            /\ UNCHANGED <<signatures, lm, pc, loc>>

\* A request to /evaluate (example_client.py:89-94).
Evaluate ==
    \E req \in EvaluateRequests :
        /\ last.op = "idle"
        /\ last' = Handled("evaluate", req, <<>>, route("/evaluate"))
        /\ UNCHANGED <<signatures, compiled_modules, lm, returned, pc, loc>>

\* The response is sent; the server waits for the next request.
Respond ==
    /\ last.op # "idle"
    /\ last' = Idle
    /\ UNCHANGED <<signatures, compiled_modules, lm, returned, pc, loc>>

Next ==
    \/ Configure
    \/ Register
    \/ Predict
    \/ Optimize
    \/ Evaluate
    \/ Respond

Spec == Init /\ [][Next]_vars

-----------------------------------------------------------------------------
(* The server handling optimize requests in worker threads: the handler is  *)
(* a plain `def`, so requests that overlap run in threads of the pool and   *)
(* a thread can be suspended between any two statements. Nothing in         *)
(* main.py:143-188 takes a lock.                                            *)

InFlight == { t \in Threads : pc[t] # "idle" }

\* main.py:145-177: the request is checked and the program compiled.
OptStart(t) ==
    \E req \in OptimizeRequests :
        \E outs \in OptimizeOutcomes(req) :
            LET c == Compiled(req, outs) IN
            /\ pc[t] = "idle"
            /\ last.op = "idle"
            /\ Len(returned) + Cardinality(InFlight) < MaxModules
            /\ loc' = [loc EXCEPT ![t] = [name |-> req.signature_name,
                                          resp |-> c.resp,
                                          program |-> c.program]]
            /\ pc' = [pc EXCEPT ![t] = IF c.ok THEN "make_id" ELSE "return"]
            /\ UNCHANGED <<signatures, compiled_modules, lm, last, returned>>

\* main.py:180: the id is built from the store's size.
OptMakeId(t) ==
    /\ pc[t] = "make_id"
    /\ loc' = [loc EXCEPT ![t].resp.module_id =
                  ModuleId(loc[t].name, Cardinality(DOMAIN compiled_modules))]
    /\ pc' = [pc EXCEPT ![t] = "store"]
    /\ UNCHANGED <<signatures, compiled_modules, lm, last, returned>>

\* main.py:181: the program is stored under the id.
OptStore(t) ==
    /\ pc[t] = "store"
    /\ compiled_modules' =
          Put(compiled_modules, loc[t].resp.module_id, loc[t].program)
    /\ pc' = [pc EXCEPT ![t] = "return"]
    /\ UNCHANGED <<signatures, lm, last, returned, loc>>

\* main.py:183 (or the raise that ended the request): the response is sent.
OptReturn(t) ==
    /\ pc[t] = "return"
    /\ returned' = IF loc[t].resp.status = 200
                   THEN Append(returned, loc[t].resp.module_id)
                   ELSE returned
    /\ pc' = [pc EXCEPT ![t] = "idle"]
    /\ loc' = [loc EXCEPT ![t] = ThreadIdle]
    /\ UNCHANGED <<signatures, compiled_modules, lm, last>>

\* Requests other than optimize are handled while no optimize is in flight.
Quiet == InFlight = {}

NextC ==
    \/ Quiet /\ Configure
    \/ Quiet /\ Register
    \/ Quiet /\ Respond
    \/ \E t \in Threads : OptStart(t)
    \/ \E t \in Threads : OptMakeId(t)
    \/ \E t \in Threads : OptStore(t)
    \/ \E t \in Threads : OptReturn(t)

SpecC == Init /\ [][NextC]_vars

-----------------------------------------------------------------------------
(* Properties *)

Registered(name) == name \in DOMAIN last.pre.signatures

Succeeded == last.resp.status = 200

StoresUnchanged ==
    /\ signatures = last.pre.signatures
    /\ compiled_modules = last.pre.compiled_modules

\* The numbers n for which id reads "<name>_opt_<n>" for a name of the model.
IdSuffixes(id) ==
    { n \in 0..Len(returned) :
        \E name \in Names : id = name \o "_opt_" \o ToString(n) }

\* C1: handled one after the other, every successful optimize returns an id
\* "<signature_name>_opt_<n>" that differs from the id of every earlier
\* successful optimize, and n never decreases from one to the next.
C1_IdsUniqueAndOrdered ==
    /\ \A i, j \in DOMAIN returned : i # j => returned[i] # returned[j]
    /\ \A i \in DOMAIN returned : IdSuffixes(returned[i]) # {}
    /\ \A i, j \in DOMAIN returned :
          i < j => \A a \in IdSuffixes(returned[i]), b \in IdSuffixes(returned[j]) :
                      a <= b
    /\ (last.op = "optimize" /\ Succeeded) =>
          \E n \in 0..Len(returned) :
              last.resp.module_id = last.req.signature_name \o "_opt_" \o ToString(n)

\* C1 witness: the same signature optimized a second time, with success.
C1_Witness ==
    /\ Len(returned) >= 2
    /\ returned[1] = "qa_opt_0"
    /\ last.op = "optimize" /\ Succeeded
    /\ last.req.signature_name = "qa"

\* C2: two optimize requests that overlap return distinct ids, and once both
\* have returned the store holds one entry for each.
C2_OverlappingOptimizeSerialized ==
    /\ \A i, j \in DOMAIN returned : i # j => returned[i] # returned[j]
    /\ InFlight = {} => Cardinality(DOMAIN compiled_modules) = Len(returned)

\* C3: predict on a registered signature with a compiled_module_id that is no
\* key of the store is answered with the not-found status, without a backend
\* call and without a change to the stores or the setting.
C3_UnknownCompiledIdNotFound ==
    ( /\ last.op = "predict"
      /\ Registered(last.req.signature_name)
      /\ last.req.compiled_module_id # NoId
      /\ last.req.compiled_module_id \notin DOMAIN last.pre.compiled_modules )
    => /\ last.resp.status = 404
       /\ last.resp.calls = 0
       /\ StoresUnchanged /\ lm = last.pre.lm

C5_EvaluateReturnsScore ==
    ( /\ last.op = "evaluate"
      /\ Registered(last.req.signature_name)
      /\ last.req.compiled_module_id \in DOMAIN last.pre.compiled_modules )
    => /\ Succeeded
       /\ "score" \in DOMAIN last.resp.output
       /\ StoresUnchanged

\* C6: the program a successful optimize stores carries at most
\* max_bootstraps demonstrations in all.
C6_DemosWithinCap ==
    (last.op = "optimize" /\ Succeeded) =>
        compiled_modules[last.resp.module_id].demos <= last.req.max_bootstraps

\* The training examples the default metric accepts: those whose value for
\* the signature's last output field equals the teacher's, compared as is.
AcceptedByLastField(sig, train, outs) ==
    LET f == sig.outs[Len(sig.outs)] IN
    { i \in DOMAIN train :
        /\ outs[i].ok
        /\ f = "answer"
        /\ outs[i].pred["answer"] = train[i] }

ExecutesProgram ==
    \/ /\ last.op = "predict"
       /\ Registered(last.req.signature_name)
       /\ \/ last.req.compiled_module_id \in DOMAIN last.pre.compiled_modules
          \/ /\ last.req.compiled_module_id = NoId
             /\ last.req.module_type \in {"Predict", "ChainOfThought"}
    \/ /\ last.op = "optimize"
       /\ Registered(last.req.signature_name)
       /\ last.req.optimizer = "BootstrapFewShot"
       /\ last.req.max_bootstraps > 0
       /\ Len(last.req.train_data) > 0

\* The status a failed call of the backend is answered with (main.py:141, 188).
BackendInvocationErrorStatus == ExceptionResponse("provider error").status

\* C8: a predict or optimize that executes a program while no language model
\* is configured fails, with a status other than that of a failed backend
\* call, and leaves both stores unchanged.
C8_BackendNotConfigured ==
    (ExecutesProgram /\ last.pre.lm = NoLM)
    => /\ ~Succeeded
       /\ last.resp.status # BackendInvocationErrorStatus
       /\ StoresUnchanged

\* C9: predict without a compiled id and with a module_type other than
\* "Predict" and "ChainOfThought" is answered with the status its own raise
\* names (400), and calls no backend.
C9_UnsupportedStrategy ==
    ( /\ last.op = "predict"
      /\ Registered(last.req.signature_name)
      /\ last.req.compiled_module_id = NoId
      /\ last.req.module_type \notin {"Predict", "ChainOfThought"} )
    => /\ last.resp.status = 400
       /\ last.resp.calls = 0
       /\ StoresUnchanged

\* C10: optimize on a registered signature with an optimizer other than
\* "BootstrapFewShot" is answered with the status its own raise names (400),
\* calls no backend and stores nothing.
C10_UnsupportedOptimizer ==
    ( /\ last.op = "optimize"
      /\ Registered(last.req.signature_name)
      /\ last.req.optimizer # "BootstrapFewShot" )
    => /\ last.resp.status = 400
       /\ last.resp.calls = 0
       /\ compiled_modules = last.pre.compiled_modules

-----------------------------------------------------------------------------
(* The metric of optimize on its own: metric_fn applied to one reference    *)
(* example and one prediction (main.py:156-165)                             *)

MetricSigStrings ==
    { <<"question", "->", "answer">>,
      <<"question", "->", "label">>,
      <<"question", "->", "label", ",", "answer">> }

MetricValues == {"Paris", "paris", "42"}

\* The output fields written in a signature string (a "," separates names).
MetricSignature(toks) ==
    LET IsName(x) == x # ","
    IN  make_signature(SelectSeq(toks, IsName))

\* A reference example and a prediction for the signature: a value for each
\* output field (the example's question is an input).
MetricCases ==
    UNION { { [op |-> "metric", metric |-> m, sig |-> MetricSignature(toks),
               example |-> [f \in {"question"} \cup DOMAIN e |->
                              IF f \in DOMAIN e THEN e[f] ELSE "q"],
               pred |-> p, verdict |-> "pending"] :
              e \in [Range(MetricSignature(toks).outs) -> MetricValues],
              p \in [Range(MetricSignature(toks).outs) -> MetricValues] } :
            toks \in MetricSigStrings, m \in Metrics }

InitM ==
    /\ signatures = EmptyDict
    /\ compiled_modules = EmptyDict
    /\ lm = NoLM
    /\ last \in MetricCases
    /\ returned = <<>>
    /\ pc = [t \in Threads |-> "idle"]
    /\ loc = [t \in Threads |-> ThreadIdle]

Score ==
    /\ last.verdict = "pending"
    /\ last' = [last EXCEPT !.verdict =
                   metric_fn(last.metric, last.sig, last.example, last.pred)]
    /\ UNCHANGED <<signatures, compiled_modules, lm, returned, pc, loc>>

NextM == Score

SpecM == InitM /\ [][NextM]_vars

\* C12: exact_match accepts a prediction iff it equals the reference in every
\* output field of the signature, compared as strings, case included.
C12_ExactMatchAllOutputFields ==
    (last.metric = "exact_match" /\ last.verdict # "pending") =>
        ( last.verdict = "pass"
          <=> \A f \in Range(last.sig.outs) : last.example[f] = last.pred[f] )

\* C13: predict and optimize naming a signature that is not registered are
\* answered with the not-found status before any program is built or called,
\* and change no store; for predict also when a compiled id comes with it.
C13_SignatureNotFound ==
    ( /\ last.op \in {"predict", "optimize"}
      /\ ~Registered(last.req.signature_name) )
    => /\ last.resp.status = 404
       /\ last.resp.detail = "Signature not found"
       /\ last.resp.calls = 0
       /\ last.resp.output = EmptyDict /\ last.resp.module_id = ""
       /\ StoresUnchanged

\* C13 witness: predict names an unregistered signature together with the id
\* of a stored compiled program, under a configured language model.
C13_Witness ==
    /\ last.op = "predict"
    /\ ~Registered(last.req.signature_name)
    /\ last.req.compiled_module_id \in DOMAIN last.pre.compiled_modules
    /\ last.pre.lm # NoLM
    /\ last.resp.status = 404

\* C14: a register request that fails leaves the signature store as it was:
\* a name not registered stays so, a registered name keeps its signature.
C14_FailedRegisterKeepsStore ==
    (last.op = "register" /\ ~Succeeded) =>
        /\ signatures = last.pre.signatures
        /\ compiled_modules = last.pre.compiled_modules
        /\ lm = last.pre.lm

\* C14 witness: a string without an arrow is turned down for a name that is
\* registered.
C14_Witness ==
    /\ last.op = "register" /\ ~Succeeded
    /\ last.req.signature = <<"question", "answer">>
    /\ Registered(last.req.name)
    /\ last.req.name \in DOMAIN signatures

\* C15: one language model is active at a time: a configure that succeeds
\* makes the requested one the active one for the program executions that
\* follow, a configure that fails leaves the active one in place, and neither
\* changes a store; once one is configured, one stays configured.
C15_OneActiveConfiguration ==
    /\ lm \in {NoLM} \cup Providers
    /\ last.op # "idle" /\ last.pre.lm # NoLM => lm # NoLM
    /\ last.op = "configure" =>
          /\ StoresUnchanged
          /\ Succeeded => lm = last.req.provider
          /\ ~Succeeded => lm = last.pre.lm
    /\ last.op \in {"register", "predict", "optimize", "evaluate"} =>
          lm = last.pre.lm
    /\ (last.op = "predict" /\ Succeeded) =>
          /\ last.pre.lm # NoLM
          /\ last.pre.lm = "dummy" =>
                \A k \in DOMAIN last.resp.output : last.resp.output[k] = "42"

\* C15 witness: with the dummy active, a configure for a provider fails for
\* want of an API key, and the dummy stays active.
C15_Witness ==
    /\ last.op = "configure" /\ last.resp.status = 400
    /\ last.req.provider = "openai"
    /\ last.pre.lm = "dummy"
    /\ lm = "dummy"

\* C16: with a registered signature and a configured language model, optimize
\* succeeds and stores a reasoning-augmented program also when no training
\* example passes the metric, and that program then has no demonstrations.
C16_NoPassingExampleGivesZeroShot ==
    ( /\ last.op = "optimize"
      /\ Registered(last.req.signature_name)
      /\ last.req.optimizer = "BootstrapFewShot"
      /\ last.req.max_bootstraps > 0
      /\ last.pre.lm # NoLM )
    => /\ Succeeded
       /\ last.resp.module_id \in DOMAIN compiled_modules
       /\ compiled_modules[last.resp.module_id].cot
       /\ last.resp.boot = 0 => compiled_modules[last.resp.module_id].demos = 0

\* C17: predict with the id of a stored compiled program on a registered
\* signature B runs that program, whatever module_type says and whatever
\* signature the program was compiled from; of its prediction the response
\* keeps the attributes that are fields of B (and a rationale).
C17_CompiledIdBypassesChecks ==
    ( /\ last.op = "predict"
      /\ Registered(last.req.signature_name)
      /\ last.req.compiled_module_id \in DOMAIN last.pre.compiled_modules )
    => LET program == last.pre.compiled_modules[last.req.compiled_module_id]
           B == last.pre.signatures[last.req.signature_name]
           o == last.outs[1]
       IN  /\ o \in BackendOutcomes(last.pre.lm, program.sig)
           /\ o.ok => /\ Succeeded
                      /\ DOMAIN last.resp.output \subseteq
                            Range(Fields(B)) \cup {"rationale"}
                      /\ DOMAIN last.resp.output =
                            Range(Fields(B)) \cap Range(program.sig.outs)
           /\ ~o.ok => /\ last.resp.status = 500
                       /\ last.resp.detail = o.detail

\* C17 witness: a program compiled from "question -> answer" is run for a
\* request naming a signature "question -> label" and module_type "ReAct";
\* the request succeeds and its output holds none of the program's fields.
C17_Witness ==
    /\ last.op = "predict" /\ Succeeded
    /\ last.req.module_type = "ReAct"
    /\ last.req.compiled_module_id \in DOMAIN last.pre.compiled_modules
    /\ last.pre.compiled_modules[last.req.compiled_module_id].sig.outs = <<"answer">>
    /\ last.pre.signatures[last.req.signature_name].outs = <<"label">>
    /\ last.resp.output = EmptyDict

====
